---- MODULE Spec2Model ----
(***************************************************************************)
(* Duplicate-observation check of notebooks/NIRSpec_MAST_Query.            *)
(*                                                                         *)
(* The notebook is modelled as the cells it runs, in order: the catalog    *)
(* cell builds the target dictionaries, the query cell fills `table` with  *)
(* one or two Observations.query_criteria results per target, and the two  *)
(* following cells derive proposal_ids and obs_ids.  An exception in a     *)
(* cell stops the run.                                                     *)
(*                                                                         *)
(* Units.  Angles are counted in 1/36000 degree, so that every radius of   *)
(* the notebook (x/360 degree for x = 180, 0.46, 3, 1.6, 3.3, 3.8) is an   *)
(* integer; exposure times are counted in 1/4000 second, so that t/4 of    *)
(* the notebook's exposure times is an integer.  Python strings made of    *)
(* digits (proposal_id, obsid) are sequences of digits, so that int() is   *)
(* computed; dictionary keys are TLA+ strings, so that key+"MOS" is a      *)
(* concatenation.  The text of the all_keys cell is a sequence of          *)
(* characters, so that `key not in all_keys` is the substring test it is.  *)
(***************************************************************************)
EXTENDS Integers, Sequences, FiniteSets, TLC

VARIABLES
    input,          \* the values typed into the catalog cell (targetN_*)
    built,          \* the targetN dictionaries built so far
    input_catalog,  \* the list assigned at the end of the catalog cell
    table,          \* dictionary key -> observation table (sequence of rows)
    calls,          \* every query_criteria call made, in order, with its outcome
    proposal_ids,   \* list built by the proposal_ids cell
    obs_ids,        \* list built by the obs_ids cell
    pc,             \* position of the run
    i,              \* index of the target the running loop is at
    j,              \* index of the row the inner loop is at
    err,            \* exception that stopped the run, or "none"
    results,        \* rows of the bulk query, each the list of its dictionary keys
    all_keys,       \* text built by the all_keys cell
    printed         \* text printed by the all_keys cell

vars == <<input, built, input_catalog, table, calls, proposal_ids, obs_ids,
          pc, i, j, err, results, all_keys, printed>>

-----------------------------------------------------------------------------
(* Bounds *)

MaxCatalog == 2

-----------------------------------------------------------------------------
(* Default duplication search radii, in 1/36000 degree *)

mos_radius == (180 * 36000) \div 360
mos_slit_radius == (46 * 36000) \div (100 * 360)
ifu_radius == (3 * 36000) \div 360
fs_S1600A1_radius == (16 * 36000) \div (10 * 360)
fs_S200A1_radius == (33 * 36000) \div (10 * 360)
fs_S200A2_radius == (33 * 36000) \div (10 * 360)
fs_S400A1_radius == (38 * 36000) \div (10 * 360)
fs_S200B1_radius == (33 * 36000) \div (10 * 360)

\* search_area = {"MSA": mos_radius, "IFU": ifu_radius, ...}
search_area ==
    ("MSA" :> mos_radius) @@ ("IFU" :> ifu_radius)
    @@ ("S1600A1" :> fs_S1600A1_radius) @@ ("S200A1" :> fs_S200A1_radius)
    @@ ("S200A2" :> fs_S200A2_radius) @@ ("S400A1" :> fs_S400A1_radius)
    @@ ("S200B1" :> fs_S200B1_radius)

\* instrument_name with the entry of "S200B1" left out
instrument_nameShort ==
    ("MSA" :> "NIRSPEC/MSA") @@ ("IFU" :> "NIRSPEC/IFU")
    @@ ("S1600A1" :> "NIRSPEC/SLIT") @@ ("S200A1" :> "NIRSPEC/SLIT")
    @@ ("S200A2" :> "NIRSPEC/SLIT") @@ ("S400A1" :> "NIRSPEC/SLIT")

\* instrument_name = {"MSA": "NIRSPEC/MSA", "IFU": "NIRSPEC/IFU", ...}
instrument_name ==
    ("MSA" :> "NIRSPEC/MSA") @@ ("IFU" :> "NIRSPEC/IFU")
    @@ ("S1600A1" :> "NIRSPEC/SLIT") @@ ("S200A1" :> "NIRSPEC/SLIT")
    @@ ("S200A2" :> "NIRSPEC/SLIT") @@ ("S400A1" :> "NIRSPEC/SLIT")
    @@ ("S200B1" :> "NIRSPEC/SLIT")

-----------------------------------------------------------------------------
(* Inputs: the targets a user may type into the catalog cell.  target1 and *)
(* target3 are the notebook's own; the others probe an IFU target whose    *)
(* box overlaps target1's, a target whose number is another target's       *)
(* number followed by "MOS", and an aperture that is no key of the tables. *)

Target1 ==
    [number |-> "1", aperture |-> "MSA", RA |-> 1912680, DEC |-> -1000800,
     grating |-> "G395H", filters |-> "F290LP", exposure_time |-> 3800000]

Target2 ==
    [number |-> "2", aperture |-> "IFU", RA |-> 1912700, DEC |-> -1000800,
     grating |-> "G395H", filters |-> "F290LP", exposure_time |-> 3800000]

Target3 ==
    [number |-> "3", aperture |-> "S200B1", RA |-> 184680, DEC |-> -1328220,
     grating |-> "G140H", filters |-> "F070LP", exposure_time |-> 7520880]

Target2MOS ==
    [number |-> "2MOS", aperture |-> "MSA", RA |-> 1912680, DEC |-> -1000800,
     grating |-> "G395H", filters |-> "F290LP", exposure_time |-> 3800000]

TargetNRC ==
    [number |-> "4", aperture |-> "NRC", RA |-> 1912680, DEC |-> -1000800,
     grating |-> "G395H", filters |-> "F290LP", exposure_time |-> 3800000]

InputTargets == {Target1, Target2, Target3, Target2MOS, TargetNRC}

RECURSIVE SeqsUpTo(_, _)
SeqsUpTo(S, n) ==
    IF n = 0 THEN {<<>>}
    ELSE LET shorter == SeqsUpTo(S, n - 1)
         IN  shorter \cup {Append(s, x) : s \in shorter, x \in S}

Catalogs == SeqsUpTo(InputTargets, MaxCatalog) \ {<<>>}

-----------------------------------------------------------------------------
(* The archive: the rows the service holds.  Each row carries the columns  *)
(* the criteria are applied to and the two columns the notebook reads.     *)

Row(inst, ra, dec, gr, fl, t, pid, oid) ==
    [instrument_name |-> inst, s_ra |-> ra, s_dec |-> dec, grating |-> gr,
     filters |-> fl, t_exptime |-> t, proposal_id |-> pid, obsid |-> oid]

Archive ==
    { \* MSA rows inside target1's box; the first also inside target2's box
      Row("NIRSPEC/MSA", 1912680, -1000800, "G395H", "F290LP", 3800000,
          <<1, 1, 8, 0>>, <<8, 6, 8, 6, 4, 3, 2, 5>>),
      Row("NIRSPEC/MSA", 1920000, -1010000, "G140H", "F290LP", 15200000,
          <<1, 2, 0, 7>>, <<8, 6, 8, 6, 4, 3, 2, 6>>),
      \* IFU rows inside target2's box
      Row("NIRSPEC/IFU", 1912700, -1000800, "G395H", "F290LP", 950000,
          <<0, 1, 1, 8, 0>>, <<0, 8, 6, 8, 6, 4, 3, 2, 5>>),
      Row("NIRSPEC/IFU", 1912400, -1001100, "G395H", "F290LP", 3800000,
          <<1, 2, 8, 6>>, <<8, 6, 8, 7, 4, 7, 6, 6>>),
      \* rows no query of the inputs selects: outside the box, exposure
      \* out of range, other filter
      Row("NIRSPEC/MSA", 1930681, -1000800, "G395H", "F290LP", 3800000,
          <<1, 2, 1, 0>>, <<8, 6, 8, 6, 4, 3, 4, 6>>),
      Row("NIRSPEC/MSA", 1912680, -1000800, "G395H", "F290LP", 15200001,
          <<1, 2, 1, 2>>, <<8, 6, 8, 6, 4, 3, 4, 7>>),
      Row("NIRSPEC/IFU", 1912700, -1000800, "G395H", "F170LP", 3800000,
          <<1, 2, 8, 7>>, <<8, 6, 8, 6, 4, 3, 4, 8>>) }

-----------------------------------------------------------------------------
(* Python helpers *)

\* int(s) of a string of decimal digits
RECURSIVE int(_)
int(s) ==
    IF s = <<>> THEN 0
    ELSE 10 * int(SubSeq(s, 1, Len(s) - 1)) + s[Len(s)]

\* `v in list`
In(v, list) == \E k \in 1..Len(list) : list[k] = v

\* AppendIfAbsent that puts the new value in front
PrependIfAbsent(list, v) == IF In(v, list) THEN list ELSE <<v>> \o list

\* AppendIfAbsent without the membership test
AppendAlways(list, v) == Append(list, v)

\* `if v not in list: list.append(v)`
AppendIfAbsent(list, v) == IF In(v, list) THEN list ELSE Append(list, v)

\* d[key] = value
SetItem(d, key, value) ==
    [k \in DOMAIN d \cup {key} |-> IF k = key THEN value ELSE d[k]]

-----------------------------------------------------------------------------
(* Catalog cell *)

\* search_area[aperture] and instrument_name[aperture] raise KeyError
KnownAperture(a) == a \in DOMAIN search_area /\ a \in DOMAIN instrument_name

\* targetN = {'number': ..., ..., 'instrument_name': ...}
MakeTarget(t) ==
    [number |-> t.number, RA |-> t.RA, DEC |-> t.DEC, grating |-> t.grating,
     filters |-> t.filters, exposure_time |-> t.exposure_time,
     search_area |-> search_area[t.aperture],
     instrument_name |-> instrument_name[t.aperture]]

-----------------------------------------------------------------------------
(* Query cell *)

\* PrimaryQuery with the bounds of every range in the other order
PrimaryQuerySwapped(target) ==
    [instrument_name |-> target.instrument_name,
     s_ra |-> <<target.RA + target.search_area, target.RA - target.search_area>>,
     s_dec |-> <<target.DEC + target.search_area, target.DEC - target.search_area>>,
     grating |-> target.grating,
     filters |-> target.filters,
     t_exptime |-> <<target.exposure_time * 4, target.exposure_time \div 4>>]

\* PrimaryQuery with the declination range taken from the right ascension
PrimaryQueryRaForDec(target) ==
    [instrument_name |-> target.instrument_name,
     s_ra |-> <<target.RA - target.search_area, target.RA + target.search_area>>,
     s_dec |-> <<target.RA - target.search_area, target.RA + target.search_area>>,
     grating |-> target.grating,
     filters |-> target.filters,
     t_exptime |-> <<target.exposure_time \div 4, target.exposure_time * 4>>]

\* arguments of the first query_criteria call
PrimaryQuery(target) ==
    [instrument_name |-> target.instrument_name,
     s_ra |-> <<target.RA - target.search_area, target.RA + target.search_area>>,
     s_dec |-> <<target.DEC - target.search_area, target.DEC + target.search_area>>,
     grating |-> target.grating,
     filters |-> target.filters,
     t_exptime |-> <<target.exposure_time \div 4, target.exposure_time * 4>>]

\* CompanionQuery with an exposure range of a factor 2 instead of 4
CompanionQueryFactor2(target) ==
    [instrument_name |-> "NIRSPEC/MSA",
     s_ra |-> <<target.RA - target.search_area, target.RA + target.search_area>>,
     s_dec |-> <<target.DEC - target.search_area, target.DEC + target.search_area>>,
     grating |-> target.grating,
     filters |-> target.filters,
     t_exptime |-> <<target.exposure_time \div 2, target.exposure_time * 2>>]

\* arguments of the second query_criteria call
CompanionQuery(target) ==
    [instrument_name |-> "NIRSPEC/MSA",
     s_ra |-> <<target.RA - target.search_area, target.RA + target.search_area>>,
     s_dec |-> <<target.DEC - target.search_area, target.DEC + target.search_area>>,
     grating |-> target.grating,
     filters |-> target.filters,
     t_exptime |-> <<target.exposure_time \div 4, target.exposure_time * 4>>]

\* NeedsCompanion without the test
NeedsCompanionAlways(target) == TRUE

\* if target['instrument_name'] != "NIRSPEC/MSA"
NeedsCompanion(target) == target.instrument_name # "NIRSPEC/MSA"

\* CompanionKey without the suffix
CompanionKeySame(key) == key

\* key+"MOS"
CompanionKey(key) == key \o "MOS"

-----------------------------------------------------------------------------
(* Observations.query_criteria, the external archive service.  The run of  *)
(* the notebook recorded in the query cell's output shows what it does     *)
(* with the criteria: "Filter grating does not exist. This filter will be  *)
(* skipped." (InputWarning), "Query returned no results."                  *)
(* (NoResultsWarning, with an empty table as result).                      *)

\* the criteria of the calls that the service applies
RecognisedCriteria == {"instrument_name", "s_ra", "s_dec", "filters", "t_exptime"}

\* InputWarning: Filter <c> does not exist. This filter will be skipped.
InputWarnings(q) == DOMAIN q \ RecognisedCriteria

Within(x, range) == range[1] <= x /\ x <= range[2]

\* a row satisfies every criterion that is not skipped
Matches(row, q) ==
    /\ ("instrument_name" \in RecognisedCriteria => row.instrument_name = q.instrument_name)
    /\ ("s_ra" \in RecognisedCriteria => Within(row.s_ra, q.s_ra))
    /\ ("s_dec" \in RecognisedCriteria => Within(row.s_dec, q.s_dec))
    /\ ("grating" \in RecognisedCriteria => row.grating = q.grating)
    /\ ("filters" \in RecognisedCriteria => row.filters = q.filters)
    /\ ("t_exptime" \in RecognisedCriteria => Within(row.t_exptime, q.t_exptime))

NoRepeat(s) == \A a, b \in 1..Len(s) : a # b => s[a] # s[b]

\* the tables the service may answer with: rows of the archive that match,
\* each at most once, in an order of the service's choosing
Responses(q) ==
    LET hits == {row \in Archive : Matches(row, q)}
    IN  {s \in SeqsUpTo(hits, Cardinality(hits)) : NoRepeat(s)}

-----------------------------------------------------------------------------
(* The run *)

Init ==
    /\ input \in Catalogs
    /\ built = <<>>
    /\ input_catalog = <<>>
    /\ table = <<>>
    /\ calls = <<>>
    /\ proposal_ids = <<>>
    /\ obs_ids = <<>>
    /\ pc = "catalog"
    /\ i = 1
    /\ j = 1
    /\ err = "none"
    /\ results = <<>>
    /\ all_keys = <<>>
    /\ printed = <<>>

\* the call the run is blocked in
LastCall == calls[Len(calls)]

Call(cand, kind, key, q) ==
    [cand |-> cand, kind |-> kind, key |-> key, query |-> q,
     status |-> "pending", rows |-> <<>>, warnings |-> {}]

Returned(call, rows) ==
    [call EXCEPT !.status = "ok", !.rows = rows,
                 !.warnings = InputWarnings(call.query)]

Failed(call) == [call EXCEPT !.status = "failed"]

\* BuildTarget that leaves a target of unknown aperture out instead of raising
BuildTargetSkipping ==
    /\ pc = "catalog"
    /\ i <= Len(input)
    /\ built' = IF KnownAperture(input[i].aperture)
                THEN Append(built, MakeTarget(input[i]))
                ELSE built
    /\ i' = i + 1
    /\ UNCHANGED <<results, all_keys, printed, input, input_catalog, table, calls, proposal_ids, obs_ids, pc, j, err>>

\* targetN_search_area = search_area[targetN_aperture] ... targetN = {...}
BuildTarget ==
    /\ pc = "catalog"
    /\ i <= Len(input)
    /\ IF KnownAperture(input[i].aperture)
       THEN /\ built' = Append(built, MakeTarget(input[i]))
            /\ i' = i + 1
            /\ UNCHANGED <<pc, err>>
       ELSE /\ pc' = "error"
            /\ err' = "ConfigurationError"   \* Python: KeyError
            /\ UNCHANGED <<built, i>>
    /\ UNCHANGED <<results, all_keys, printed, input, input_catalog, table, calls, proposal_ids, obs_ids, j>>

\* input_catalog = [target1, target2, target3]; next cell: table = {}
AssignCatalog ==
    /\ pc = "catalog"
    /\ i > Len(input)
    /\ input_catalog' = built
    /\ table' = <<>>
    /\ pc' = "primary"
    /\ i' = 1
    /\ UNCHANGED <<results, all_keys, printed, input, built, calls, proposal_ids, obs_ids, j, err>>

\* IssuePrimary that sends the primary queries of all remaining targets at once
IssuePrimaryBatch ==
    /\ pc = "primary"
    /\ i <= Len(input_catalog)
    /\ calls' = calls \o
          [k \in 1..(Len(input_catalog) - i + 1) |->
              Call(i + k - 1, "primary", input_catalog[i + k - 1].number,
                   PrimaryQuery(input_catalog[i + k - 1]))]
    /\ pc' = "await_primary"
    /\ UNCHANGED <<results, all_keys, printed, input, built, input_catalog, table, proposal_ids, obs_ids, i, j, err>>

\* IssuePrimary that writes the lower exposure bound back into the target
IssuePrimaryMutating ==
    /\ pc = "primary"
    /\ i <= Len(input_catalog)
    /\ LET target == input_catalog[i]
           key == target.number
       IN  /\ calls' = Append(calls, Call(i, "primary", key, PrimaryQuery(target)))
           /\ input_catalog' =
                 [input_catalog EXCEPT ![i].exposure_time = target.exposure_time \div 4]
    /\ pc' = "await_primary"
    /\ UNCHANGED <<results, all_keys, printed, input, built, table, proposal_ids, obs_ids, i, j, err>>

\* table[key] = Observations.query_criteria(...): the call is made
IssuePrimary ==
    /\ pc = "primary"
    /\ i <= Len(input_catalog)
    /\ LET target == input_catalog[i]
           key == target.number
       IN  calls' = Append(calls, Call(i, "primary", key, PrimaryQuery(target)))
    /\ pc' = "await_primary"
    /\ UNCHANGED <<results, all_keys, printed, input, built, input_catalog, table, proposal_ids, obs_ids, i, j, err>>

\* ReturnPrimary that raises when the table is empty
ReturnPrimaryEmptyRaises ==
    /\ pc = "await_primary"
    /\ \E rows \in Responses(LastCall.query) :
          /\ calls' = [calls EXCEPT ![Len(calls)] = Returned(LastCall, rows)]
          /\ table' = SetItem(table, LastCall.key, rows)
          /\ IF rows = <<>>
             THEN pc' = "error" /\ i' = i /\ err' = "ArchiveQueryError"
             ELSE /\ err' = err
                  /\ IF NeedsCompanion(input_catalog[i])
                     THEN pc' = "companion" /\ i' = i
                     ELSE pc' = "primary" /\ i' = i + 1
    /\ UNCHANGED <<results, all_keys, printed, input, built, input_catalog, proposal_ids, obs_ids, j>>

\* ReturnPrimary that raises when the service warned about a criterion
ReturnPrimaryWarningRaises ==
    /\ pc = "await_primary"
    /\ \E rows \in Responses(LastCall.query) :
          /\ calls' = [calls EXCEPT ![Len(calls)] = Returned(LastCall, rows)]
          /\ IF InputWarnings(LastCall.query) # {}
             THEN /\ pc' = "error" /\ i' = i /\ err' = "ArchiveQueryError"
                  /\ table' = table
             ELSE /\ err' = err
                  /\ table' = SetItem(table, LastCall.key, rows)
                  /\ IF NeedsCompanion(input_catalog[i])
                     THEN pc' = "companion" /\ i' = i
                     ELSE pc' = "primary" /\ i' = i + 1
    /\ UNCHANGED <<results, all_keys, printed, input, built, input_catalog, proposal_ids, obs_ids, j>>

\* ... the call returns a table, which is stored under key
ReturnPrimary ==
    /\ pc = "await_primary"
    /\ \E rows \in Responses(LastCall.query) :
          /\ calls' = [calls EXCEPT ![Len(calls)] = Returned(LastCall, rows)]
          /\ table' = SetItem(table, LastCall.key, rows)
    /\ IF NeedsCompanion(input_catalog[i])
       THEN pc' = "companion" /\ i' = i
       ELSE pc' = "primary" /\ i' = i + 1
    /\ UNCHANGED <<results, all_keys, printed, input, built, input_catalog, proposal_ids, obs_ids, j, err>>

\* table[key+"MOS"] = Observations.query_criteria(...): the call is made
IssueCompanion ==
    /\ pc = "companion"
    /\ LET target == input_catalog[i]
           key == target.number
       IN  calls' = Append(calls, Call(i, "companion", CompanionKey(key),
                                       CompanionQuery(target)))
    /\ pc' = "await_companion"
    /\ UNCHANGED <<results, all_keys, printed, input, built, input_catalog, table, proposal_ids, obs_ids, i, j, err>>

\* ... the call returns a table, which is stored under key+"MOS"
ReturnCompanion ==
    /\ pc = "await_companion"
    /\ \E rows \in Responses(LastCall.query) :
          /\ calls' = [calls EXCEPT ![Len(calls)] = Returned(LastCall, rows)]
          /\ table' = SetItem(table, LastCall.key, rows)
    /\ pc' = "primary"
    /\ i' = i + 1
    /\ UNCHANGED <<results, all_keys, printed, input, built, input_catalog, proposal_ids, obs_ids, j, err>>

\* QueryFails as a timeout: the call is given up while still outstanding, an
\* empty table stands in for its result and the loop goes on
QueryTimesOut ==
    /\ pc \in {"await_primary", "await_companion"}
    /\ table' = SetItem(table, LastCall.key, <<>>)
    /\ IF pc = "await_primary" /\ NeedsCompanion(input_catalog[i])
       THEN pc' = "companion" /\ i' = i
       ELSE pc' = "primary" /\ i' = i + 1
    /\ UNCHANGED <<results, all_keys, printed, input, built, input_catalog, calls, proposal_ids, obs_ids, j, err>>

\* QueryFails with the exception caught and the loop going on
QueryFailsCaught ==
    /\ pc \in {"await_primary", "await_companion"}
    /\ calls' = [calls EXCEPT ![Len(calls)] = Failed(LastCall)]
    /\ pc' = "primary"
    /\ i' = i + 1
    /\ UNCHANGED <<results, all_keys, printed, input, built, input_catalog, table, proposal_ids, obs_ids, j, err>>

\* a call raises instead of returning: nothing catches it, the run stops
QueryFails ==
    /\ pc \in {"await_primary", "await_companion"}
    /\ calls' = [calls EXCEPT ![Len(calls)] = Failed(LastCall)]
    /\ pc' = "error"
    /\ err' = "ArchiveQueryError"
    /\ UNCHANGED <<results, all_keys, printed, input, built, input_catalog, table, proposal_ids, obs_ids, i, j>>

\* the loop over input_catalog ends; next cell: proposal_ids=[]
EndQueryCell ==
    /\ pc = "primary"
    /\ i > Len(input_catalog)
    /\ pc' = "proposal_ids"
    /\ proposal_ids' = <<>>
    /\ i' = 1
    /\ j' = 1
    /\ UNCHANGED <<results, all_keys, printed, input, built, input_catalog, table, calls, obs_ids, err>>

\* the column the inner loop of a derivation cell runs over
RowsOf(target) == table[target.number]

\* if int(proposal_id) not in proposal_ids: proposal_ids.append(int(proposal_id))
ProposalRow ==
    /\ pc = "proposal_ids"
    /\ i <= Len(input_catalog)
    /\ j <= Len(RowsOf(input_catalog[i]))
    /\ proposal_ids' =
          AppendIfAbsent(proposal_ids, int(RowsOf(input_catalog[i])[j].proposal_id))
    /\ j' = j + 1
    /\ UNCHANGED <<results, all_keys, printed, input, built, input_catalog, table, calls, obs_ids, pc, i, err>>

\* for target in input_catalog: the next target
ProposalNextTarget ==
    /\ pc = "proposal_ids"
    /\ i <= Len(input_catalog)
    /\ j > Len(RowsOf(input_catalog[i]))
    /\ i' = i + 1
    /\ j' = 1
    /\ UNCHANGED <<results, all_keys, printed, input, built, input_catalog, table, calls, proposal_ids, obs_ids, pc, err>>

\* the loop ends; next cell: obs_ids=[]
EndProposalCell ==
    /\ pc = "proposal_ids"
    /\ i > Len(input_catalog)
    /\ pc' = "obs_ids"
    /\ obs_ids' = <<>>
    /\ i' = 1
    /\ j' = 1
    /\ UNCHANGED <<results, all_keys, printed, input, built, input_catalog, table, calls, proposal_ids, err>>

\* str(int(s)) of a string of decimal digits: s without its leading zeros
RECURSIVE StripZeros(_)
StripZeros(s) ==
    IF Len(s) > 1 /\ s[1] = 0 THEN StripZeros(Tail(s)) ELSE s

\* ObsRow that compares and keeps obsid by its number, str(int(obs_id))
ObsRowConverting ==
    /\ pc = "obs_ids"
    /\ i <= Len(input_catalog)
    /\ j <= Len(RowsOf(input_catalog[i]))
    /\ obs_ids' = AppendIfAbsent(obs_ids, StripZeros(RowsOf(input_catalog[i])[j].obsid))
    /\ j' = j + 1
    /\ UNCHANGED <<results, all_keys, printed, input, built, input_catalog, table, calls, proposal_ids, pc, i, err>>

\* if obs_id not in obs_ids: obs_ids.append(obs_id)
ObsRow ==
    /\ pc = "obs_ids"
    /\ i <= Len(input_catalog)
    /\ j <= Len(RowsOf(input_catalog[i]))
    /\ obs_ids' = AppendIfAbsent(obs_ids, RowsOf(input_catalog[i])[j].obsid)
    /\ j' = j + 1
    /\ UNCHANGED <<results, all_keys, printed, input, built, input_catalog, table, calls, proposal_ids, pc, i, err>>

\* for target in input_catalog: the next target
ObsNextTarget ==
    /\ pc = "obs_ids"
    /\ i <= Len(input_catalog)
    /\ j > Len(RowsOf(input_catalog[i]))
    /\ i' = i + 1
    /\ j' = 1
    /\ UNCHANGED <<results, all_keys, printed, input, built, input_catalog, table, calls, proposal_ids, obs_ids, pc, err>>

\* the loop ends
EndObsCell ==
    /\ pc = "obs_ids"
    /\ i > Len(input_catalog)
    /\ pc' = "done"
    /\ UNCHANGED <<results, all_keys, printed, input, built, input_catalog, table, calls, proposal_ids, obs_ids, i, j, err>>

Next ==
    \/ BuildTarget
    \/ AssignCatalog
    \/ IssuePrimary
    \/ ReturnPrimary
    \/ IssueCompanion
    \/ ReturnCompanion
    \/ QueryFails
    \/ EndQueryCell
    \/ ProposalRow
    \/ ProposalNextTarget
    \/ EndProposalCell
    \/ ObsRow
    \/ ObsNextTarget
    \/ EndObsCell

Spec == Init /\ [][Next]_vars

\* The cells run on for as long as a step can be taken, and every call to
\* the service returns or raises in the end.
LiveSpec == Init /\ [][Next]_vars /\ WF_vars(Next)

-----------------------------------------------------------------------------
(* The all_keys cell: the listing of the available filter parameters.  It  *)
(* is a computation of its own on the rows of the bulk query, checked from *)
(* rows drawn from the key names below.                                    *)

MaxResults == 2
MaxKeys == 2

date_obs == <<"d", "a", "t", "e", "_", "o", "b", "s">>
date == <<"d", "a", "t", "e">>
date_end == <<"d", "a", "t", "e", "_", "e", "n", "d">>
pi_name == <<"p", "i", "_", "n", "a", "m", "e">>

KeyNames == {date_obs, date, date_end, pi_name}

\* result.keys(): the keys of one row, each once, in the order of the dictionary
KeyLists == {ks \in SeqsUpTo(KeyNames, MaxKeys) : ks # <<>> /\ NoRepeat(ks)}

\* results: the rows of the bulk query
ResultLists == SeqsUpTo(KeyLists, MaxResults) \ {<<>>}

\* `key in text` for two Python strings: key occurs in text as a substring
IsSubstring(key, text) ==
    \E a \in 0..(Len(text) - Len(key)) : SubSeq(text, a + 1, a + Len(key)) = key

\* text[:-2]
DropLastTwo(text) == SubSeq(text, 1, Len(text) - 2)

KeysInit ==
    /\ results \in ResultLists
    /\ all_keys = <<>>
    /\ printed = <<>>
    /\ pc = "all_keys"
    /\ i = 1
    /\ j = 1
    /\ input = <<>>
    /\ built = <<>>
    /\ input_catalog = <<>>
    /\ table = <<>>
    /\ calls = <<>>
    /\ proposal_ids = <<>>
    /\ obs_ids = <<>>
    /\ err = "none"

\* if key not in all_keys: all_keys = all_keys + key + ", "
KeyStep ==
    /\ pc = "all_keys"
    /\ i <= Len(results)
    /\ j <= Len(results[i])
    /\ all_keys' = IF IsSubstring(results[i][j], all_keys)
                   THEN all_keys
                   ELSE all_keys \o results[i][j] \o <<",", " ">>
    /\ j' = j + 1
    /\ UNCHANGED <<results, printed, pc, i, input, built, input_catalog, table,
                   calls, proposal_ids, obs_ids, err>>

\* for result in results: the next row
KeyNextResult ==
    /\ pc = "all_keys"
    /\ i <= Len(results)
    /\ j > Len(results[i])
    /\ i' = i + 1
    /\ j' = 1
    /\ UNCHANGED <<results, all_keys, printed, pc, input, built, input_catalog,
                   table, calls, proposal_ids, obs_ids, err>>

\* print(all_keys[:-2])
PrintKeys ==
    /\ pc = "all_keys"
    /\ i > Len(results)
    /\ printed' = DropLastTwo(all_keys)
    /\ pc' = "keys_done"
    /\ UNCHANGED <<results, all_keys, i, j, input, built, input_catalog, table,
                   calls, proposal_ids, obs_ids, err>>

KeysNext ==
    \/ KeyStep
    \/ KeyNextResult
    \/ PrintKeys

KeysSpec == KeysInit /\ [][KeysNext]_vars

-----------------------------------------------------------------------------
(* Vocabulary of the properties *)

Entries == 1..Len(input)

IsMSA(k) == input[k].aperture = "MSA"

\* the calls made for entry k of the catalog
CallsOf(k) == {c \in 1..Len(calls) : calls[c].cand = k}

CallOf(k, kind) == {c \in CallsOf(k) : calls[c].kind = kind}

\* the query cell has run to its end
QueryCellDone == pc \in {"proposal_ids", "obs_ids", "done"}

\* the query cell is past entry k
PastEntry(k) ==
    \/ QueryCellDone
    \/ /\ pc \in {"primary", "await_primary", "companion", "await_companion"}
             \/ err = "ArchiveQueryError"
       /\ k < i

BadInput == \E k \in Entries : input[k].aperture \notin DOMAIN search_area

Range(s) == {s[k] : k \in 1..Len(s)}

FirstIndex(s, v) == CHOOSE n \in 1..Len(s) : s[n] = v /\ \A m \in 1..(n - 1) : s[m] # v

\* list holds the values of trav, each once, in the order of their first
\* occurrence in trav
FirstOccurrences(list, trav) ==
    /\ NoRepeat(list)
    /\ Range(list) = Range(trav)
    /\ \A a, b \in 1..Len(list) :
          a < b => FirstIndex(trav, list[a]) < FirstIndex(trav, list[b])

\* the rows of the tables of the targets 1..n of the catalog, in catalog
\* order: the table stored under the target's number and, when withMOS, the
\* table stored under number+"MOS" of a target that is not MSA
RECURSIVE RowsUpTo(_, _)
RowsUpTo(n, withMOS) ==
    IF n = 0 THEN <<>>
    ELSE LET target == input_catalog[n]
         IN  RowsUpTo(n - 1, withMOS)
             \o table[target.number]
             \o (IF withMOS /\ target.instrument_name # "NIRSPEC/MSA"
                 THEN table[target.number \o "MOS"]
                 ELSE <<>>)

ProposalValues(rows) == [r \in 1..Len(rows) |-> int(rows[r].proposal_id)]

ObsValues(rows) == [r \in 1..Len(rows) |-> rows[r].obsid]

-----------------------------------------------------------------------------
(* C1: an entry whose mode is MSA gets exactly one query and any other     *)
(* entry exactly two; when the query cell has run over the whole catalog   *)
(* without error, the number of queries made is the number of entries plus *)
(* the number of entries that are not MSA.                                 *)
C1_QueryCount ==
    /\ \A k \in Entries :
          PastEntry(k) => Cardinality(CallsOf(k)) = IF IsMSA(k) THEN 1 ELSE 2
    /\ \A k \in Entries :
          /\ Cardinality(CallOf(k, "primary")) <= 1
          /\ Cardinality(CallOf(k, "companion")) <= (IF IsMSA(k) THEN 0 ELSE 1)
    /\ QueryCellDone =>
          Len(calls) = Len(input) + Cardinality({k \in Entries : ~IsMSA(k)})

C1_Witness ==
    /\ pc = "done"
    /\ Len(input) = 2
    /\ IsMSA(1)
    /\ ~IsMSA(2)
    /\ Len(calls) = 3

(* C2: when an entry of the catalog names an aperture that is no key of    *)
(* the tables, no duplicate-check query has been made in any state of the  *)
(* run, also not for valid entries before the bad one, and the only way    *)
(* the run stops is the configuration error.                               *)
C2_BadApertureNoQuery ==
    BadInput =>
        /\ calls = <<>>
        /\ input_catalog = <<>>
        /\ pc \in {"catalog", "error"}
        /\ (pc = "error" => err = "ConfigurationError")
        /\ (pc = "catalog" => i <= Len(input))

C2_Witness ==
    /\ err = "ConfigurationError"
    /\ Len(input) = 2
    /\ input[1].aperture \in DOMAIN search_area
    /\ Len(built) = 1
    /\ calls = <<>>

C4_PrimaryQuery ==
    \A c \in 1..Len(calls) :
        calls[c].kind = "primary" =>
            LET t == input[calls[c].cand]
                r == search_area[t.aperture]
                q == calls[c].query
            IN  /\ q.s_ra = <<t.RA - r, t.RA + r>>
                /\ q.s_dec = <<t.DEC - r, t.DEC + r>>
                /\ q.grating = t.grating
                /\ q.filters = t.filters
                /\ q.instrument_name = instrument_name[t.aperture]
                /\ 4 * q.t_exptime[1] = t.exposure_time
                /\ q.t_exptime[2] = 4 * t.exposure_time
                /\ calls[c].key = t.number
                /\ (t.aperture = "MSA" /\ t.RA = 1912680 /\ t.DEC = -1000800
                        /\ t.exposure_time = 3800000) =>
                      /\ r = 18000
                      /\ q.s_ra = <<1894680, 1930680>>
                      /\ q.s_dec = <<-1018800, -982800>>
                      /\ q.t_exptime = <<950000, 15200000>>
                      /\ q.grating = "G395H"
                      /\ q.filters = "F290LP"
                      /\ q.instrument_name = "NIRSPEC/MSA"

C4_Witness ==
    /\ Len(input) = 1
    /\ input[1] = Target1
    /\ Len(calls) = 1
    /\ calls[1].kind = "primary"
    /\ calls[1].status = "ok"
    /\ pc = "done"

(* C5: every row stored for an entry, under its number or under            *)
(* number+"MOS", lies in the box [RA - r, RA + r] x [DEC - r, DEC + r] of  *)
(* the entry, has the entry's grating and the entry's filter, and has an   *)
(* exposure time t with exposure_time/4 <= t <= exposure_time*4.           *)
C5_StoredRowsSatisfyCriteria ==
    \A c \in 1..Len(calls) :
        (calls[c].status = "ok" /\ table[calls[c].key] = calls[c].rows) =>
            LET t == input[calls[c].cand]
                r == search_area[t.aperture]
            IN  \A n \in 1..Len(table[calls[c].key]) :
                    LET row == table[calls[c].key][n]
                    IN  /\ t.RA - r <= row.s_ra /\ row.s_ra <= t.RA + r
                        /\ t.DEC - r <= row.s_dec /\ row.s_dec <= t.DEC + r
                        /\ row.grating = t.grating
                        /\ row.filters = t.filters
                        /\ t.exposure_time <= 4 * row.t_exptime
                        /\ row.t_exptime <= 4 * t.exposure_time

C7_ProposalIdsCoverCompanion ==
    pc \in {"obs_ids", "done"} =>
        /\ FirstOccurrences(proposal_ids,
                            ProposalValues(RowsUpTo(Len(input_catalog), TRUE)))
        /\ \A key \in DOMAIN table :
              \A n \in 1..Len(table[key]) :
                  In(int(table[key][n].proposal_id), proposal_ids)

(* C8: a query that fails has been made once and is the last call of the   *)
(* run: no call repeats it and none follows it; the run is stopped with    *)
(* the query error, and proposal_ids and obs_ids are not derived.          *)
C8_QueryErrorStopsRun ==
    \A c \in 1..Len(calls) :
        calls[c].status = "failed" =>
            /\ c = Len(calls)
            /\ \A d \in 1..Len(calls) :
                  (calls[d].cand = calls[c].cand /\ calls[d].kind = calls[c].kind)
                      => d = c
            /\ \A d \in 1..(c - 1) : calls[d].status = "ok"
            /\ pc = "error"
            /\ err = "ArchiveQueryError"
            /\ proposal_ids = <<>>
            /\ obs_ids = <<>>

\* the companion query of the first of two entries failed after its primary
\* query had returned rows
C8_Witness ==
    /\ Len(input) = 2
    /\ Len(calls) = 2
    /\ calls[1].status = "ok"
    /\ calls[1].rows # <<>>
    /\ calls[2].status = "failed"
    /\ calls[2].kind = "companion"
    /\ pc = "error"

(* C9: a query that matches no row is a success: right after it returns,   *)
(* table holds the empty sequence under its key, the run is not in error   *)
(* and is about to make the next query of the catalog if there is one;     *)
(* when the query cell ends every entry has had its queries; and tables    *)
(* that are all empty give empty proposal_ids and obs_ids.                 *)
C9_EmptyResultIsSuccess ==
    /\ \A c \in 1..Len(calls) :
          (c = Len(calls) /\ calls[c].status = "ok" /\ calls[c].rows = <<>>) =>
              /\ calls[c].key \in DOMAIN table
              /\ table[calls[c].key] = <<>>
              /\ pc # "error"
              /\ err = "none"
              /\ \/ pc = "companion"
                 \/ pc = "primary" /\ i <= Len(input_catalog)
                 \/ /\ calls[c].cand = Len(input_catalog)
                    /\ calls[c].kind = "companion" \/ IsMSA(calls[c].cand)
    /\ QueryCellDone => \A k \in Entries : CallOf(k, "primary") # {}
    /\ (pc = "done" /\ \A k \in Entries : table[input_catalog[k].number] = <<>>) =>
          proposal_ids = <<>> /\ obs_ids = <<>>

\* the first entry's queries matched nothing, the second entry's did
C9_Witness ==
    /\ pc = "done"
    /\ Len(input) = 2
    /\ Len(calls) = 3
    /\ calls[1].rows = <<>>
    /\ calls[2].rows = <<>>
    /\ calls[1].status = "ok"
    /\ calls[2].status = "ok"
    /\ Len(calls[3].rows) = 2
    /\ table[input[1].number] = <<>>
    /\ Len(proposal_ids) = 2

(* C10: when the service answers a query with the warning that a criterion *)
(* does not exist, the run is not in error right after: table holds the    *)
(* rows the service returned, empty or not, under the query's key, and the *)
(* run goes on with the next query of the catalog if there is one.         *)
C10_WarningTolerated ==
    \A c \in 1..Len(calls) :
        (c = Len(calls) /\ calls[c].warnings # {}) =>
            /\ calls[c].status = "ok"
            /\ calls[c].key \in DOMAIN table
            /\ table[calls[c].key] = calls[c].rows
            /\ pc # "error"
            /\ err = "none"
            /\ \/ pc = "companion"
               \/ pc = "primary" /\ i <= Len(input_catalog)
               \/ /\ calls[c].cand = Len(input_catalog)
                  /\ calls[c].kind = "companion" \/ IsMSA(calls[c].cand)

\* a warned query that returned rows, one that returned none, and a query
\* made after both
C10_Witness ==
    /\ Len(calls) = 3
    /\ calls[1].warnings = {"grating"}
    /\ calls[1].rows # <<>>
    /\ calls[2].warnings = {"grating"}
    /\ calls[2].rows = <<>>
    /\ table[calls[1].key] = calls[1].rows
    /\ table[calls[2].key] = <<>>
    /\ calls[3].status = "pending"

(* C11: queries are made one at a time in catalog order: at most one call  *)
(* is outstanding, and it is the last one made; the calls follow the       *)
(* catalog, the primary call of an entry before its companion call, every  *)
(* call of an entry returned before a call of the next entry is made.      *)
C11_OneQueryAtATime ==
    /\ Cardinality({c \in 1..Len(calls) : calls[c].status = "pending"}) <= 1
    /\ \A c \in 1..(Len(calls) - 1) : calls[c].status = "ok"
    /\ \A c \in 1..(Len(calls) - 1) :
          \/ /\ calls[c + 1].cand = calls[c].cand
             /\ calls[c].kind = "primary"
             /\ calls[c + 1].kind = "companion"
          \/ /\ calls[c + 1].cand = calls[c].cand + 1
             /\ calls[c + 1].kind = "primary"
    /\ calls # <<>> => calls[1].cand = 1 /\ calls[1].kind = "primary"
    /\ (calls # <<>> /\ LastCall.status = "pending") =>
          pc \in {"await_primary", "await_companion"}

\* the primary query of the second of two IFU entries is outstanding
C11_Witness ==
    /\ Len(calls) = 3
    /\ calls[3].status = "pending"
    /\ calls[3].cand = 2
    /\ calls[2].kind = "companion"
    /\ calls[2].status = "ok"

(* C12: no step of the run changes the values typed into the catalog, the  *)
(* target dictionaries already built or the catalog once assigned, whether *)
(* the run ends with the lists or with an error.  (The radius and label    *)
(* tables are assigned once and no statement of the cells writes to them.) *)
C12_CatalogUnchanged ==
    [][ /\ input' = input
        /\ \A k \in 1..Len(built) : Len(built') >= k /\ built'[k] = built[k]
        /\ pc # "catalog" => built' = built /\ input_catalog' = input_catalog
        /\ pc = "catalog" => input_catalog = <<>> /\ input_catalog' \in {<<>>, built}
      ]_vars

C12_Witness ==
    /\ pc = "done"
    /\ Len(input_catalog) = 2
    /\ input_catalog = built
    /\ \A k \in 1..2 :
          /\ input_catalog[k].number = input[k].number
          /\ input_catalog[k].exposure_time = input[k].exposure_time
    /\ Len(proposal_ids) >= 2

(* C13: the companion query of an entry that is not MSA has the RA range,  *)
(* Dec range, grating, filter and exposure range of the entry's primary    *)
(* query and differs from it in the instrument label only, which is        *)
(* "NIRSPEC/MSA", the label of the MSA entry of the table.                 *)
C13_CompanionQuery ==
    \A c \in 1..Len(calls) :
        calls[c].kind = "companion" =>
            /\ ~IsMSA(calls[c].cand)
            /\ \E p \in CallOf(calls[c].cand, "primary") :
                  /\ calls[c].query.s_ra = calls[p].query.s_ra
                  /\ calls[c].query.s_dec = calls[p].query.s_dec
                  /\ calls[c].query.grating = calls[p].query.grating
                  /\ calls[c].query.filters = calls[p].query.filters
                  /\ calls[c].query.t_exptime = calls[p].query.t_exptime
                  /\ calls[c].query.instrument_name # calls[p].query.instrument_name
                  /\ DOMAIN calls[c].query = DOMAIN calls[p].query
            /\ calls[c].query.instrument_name = "NIRSPEC/MSA"
            /\ calls[c].query.instrument_name = instrument_name["MSA"]

C13_Witness ==
    /\ Len(calls) = 2
    /\ calls[2].kind = "companion"
    /\ calls[1].query.instrument_name = "NIRSPEC/SLIT"
    /\ calls[2].status = "ok"

(* C14: obs_ids keeps each obsid as returned and tests membership on the   *)
(* value as returned: it has one element for every distinct obsid string   *)
(* of the traversed tables, also for two strings that denote the same      *)
(* number, while proposal_ids has one element for every distinct integer   *)
(* value of int(proposal_id).                                              *)
C14_ObsIdsAsReturned ==
    pc = "done" =>
        LET rows == RowsUpTo(Len(input_catalog), FALSE)
        IN  /\ Range(obs_ids) = {rows[r].obsid : r \in 1..Len(rows)}
            /\ Len(obs_ids) = Cardinality({rows[r].obsid : r \in 1..Len(rows)})
            /\ Range(proposal_ids) = {int(rows[r].proposal_id) : r \in 1..Len(rows)}
            /\ Len(proposal_ids)
                  = Cardinality({int(rows[r].proposal_id) : r \in 1..Len(rows)})

\* obsid "86864325" and "086864325" are both kept; proposal_id "1180" and
\* "01180" give the one element 1180
C14_Witness ==
    /\ pc = "done"
    /\ In(<<8, 6, 8, 6, 4, 3, 2, 5>>, obs_ids)
    /\ In(<<0, 8, 6, 8, 6, 4, 3, 2, 5>>, obs_ids)
    /\ LET rows == RowsUpTo(Len(input_catalog), FALSE)
       IN  /\ \E r \in 1..Len(rows) : rows[r].proposal_id = <<1, 1, 8, 0>>
           /\ \E r \in 1..Len(rows) : rows[r].proposal_id = <<0, 1, 1, 8, 0>>
    /\ Cardinality({k \in 1..Len(proposal_ids) : proposal_ids[k] = 1180}) = 1

(* C16: proposal_ids and obs_ids only grow by appending: in every step the *)
(* list before the step is a prefix of the list after it, it grows by at   *)
(* most one element, and the steps of the two derivation cells leave the   *)
(* tables as they are.                                                     *)
C16_AppendOnly ==
    [][ /\ Len(proposal_ids') \in {Len(proposal_ids), Len(proposal_ids) + 1}
        /\ SubSeq(proposal_ids', 1, Len(proposal_ids)) = proposal_ids
        /\ Len(obs_ids') \in {Len(obs_ids), Len(obs_ids) + 1}
        /\ SubSeq(obs_ids', 1, Len(obs_ids)) = obs_ids
        /\ pc \in {"proposal_ids", "obs_ids"} => table' = table /\ calls' = calls
      ]_vars

\* both lists have grown to three elements or more
C16_Witness ==
    /\ pc = "obs_ids"
    /\ Len(proposal_ids) = 3
    /\ Len(obs_ids) = 3
    /\ j = 2

(* C17: whatever strings the numbers of the targets are, no query result   *)
(* is overwritten: when the query cell has run without error, table has    *)
(* as many entries as queries were made.                                   *)
C17_NoResultOverwritten ==
    QueryCellDone => Cardinality(DOMAIN table) = Len(calls)

(* C18: the test of the query cell, instrument label # "NIRSPEC/MSA",      *)
(* agrees with aperture # "MSA" for every key of the tables: "MSA" is the  *)
(* only key with the label "NIRSPEC/MSA", and the radius table and the     *)
(* label table have the same keys; so every entry of a catalog gets its    *)
(* companion query exactly when its aperture is not "MSA".                 *)
C18_LabelTestAgreesWithKey ==
    /\ DOMAIN search_area = DOMAIN instrument_name
    /\ "MSA" \in DOMAIN instrument_name
    /\ \A a \in DOMAIN instrument_name :
          (instrument_name[a] # "NIRSPEC/MSA") <=> (a # "MSA")
    /\ \A a \in DOMAIN search_area \cap DOMAIN instrument_name :
          NeedsCompanion([instrument_name |-> instrument_name[a]]) <=> (a # "MSA")
    /\ \A k \in 1..Len(built) : NeedsCompanion(built[k]) <=> ~IsMSA(k)

C18_Witness ==
    /\ Len(built) = 2
    /\ IsMSA(1)
    /\ input[2].aperture = "S200B1"
    /\ ~NeedsCompanion(built[1])
    /\ NeedsCompanion(built[2])
    /\ Len(calls) = 3

(* C19: every range sent to the service is well formed: the radius of      *)
(* every key is strictly positive, so the lower bound of the RA range and  *)
(* of the Dec range of every query is strictly below the upper bound and   *)
(* the entry's own position lies inside; and for an entry of positive      *)
(* exposure time t the lower exposure bound is below the upper one and t   *)
(* lies in the range.                                                      *)
C19_RangesWellFormed ==
    /\ \A a \in DOMAIN search_area : search_area[a] > 0
    /\ \A c \in 1..Len(calls) :
          LET t == input[calls[c].cand]
              q == calls[c].query
          IN  /\ q.s_ra[1] < q.s_ra[2]
              /\ q.s_dec[1] < q.s_dec[2]
              /\ q.s_ra[1] < t.RA /\ t.RA < q.s_ra[2]
              /\ q.s_dec[1] < t.DEC /\ t.DEC < q.s_dec[2]
              /\ t.exposure_time > 0 =>
                    /\ q.t_exptime[1] < q.t_exptime[2]
                    /\ q.t_exptime[1] < t.exposure_time
                    /\ t.exposure_time < q.t_exptime[2]

\* a fixed-slit entry of positive exposure time has made both its queries
C19_Witness ==
    /\ Len(calls) = 2
    /\ input[1].aperture = "S200B1"
    /\ input[1].exposure_time > 0
    /\ calls[2].kind = "companion"
    /\ calls[2].query.s_ra = <<input[1].RA - 330, input[1].RA + 330>>

\* a step taken while a call is outstanding is the return or failure of it
OutstandingOnlyReturns ==
    pc \in {"await_primary", "await_companion"} =>
        /\ Len(calls') = Len(calls)
        /\ calls[Len(calls)].status = "pending"
        /\ calls'[Len(calls)].status \in {"ok", "failed"}
        /\ (calls'[Len(calls)].status = "failed") <=> (pc' = "error")

(* C15: when every query returns in the end (with rows, with none, or with *)
(* an error) the run ends, with the lists derived or with an error; and    *)
(* while a query is outstanding the only step there is is the return or    *)
(* the failure of that query -- no timeout, no cancellation, no later      *)
(* query -- so that a query that never returns holds the run for ever.     *)
C15_EndsIffQueriesReturn ==
    /\ <>(\/ pc = "done" /\ err = "none"
          \/ pc = "error" /\ err # "none")
    /\ [][OutstandingOnlyReturns]_vars

\* a run of two IFU entries has ended after its four queries returned
C15_Witness ==
    /\ pc = "done"
    /\ err = "none"
    /\ Len(calls) = 4
    /\ \A c \in 1..4 : calls[c].status = "ok"

\* the keys of all rows, rows in order, the keys of a row in its order
RECURSIVE KeysUpTo(_)
KeysUpTo(n) == IF n = 0 THEN <<>> ELSE KeysUpTo(n - 1) \o results[n]

\* the values of s, each once, in the order of first occurrence
RECURSIVE Dedup(_)
Dedup(s) ==
    IF s = <<>> THEN <<>>
    ELSE LET front == Dedup(SubSeq(s, 1, Len(s) - 1))
         IN  IF s[Len(s)] \in Range(front) THEN front ELSE Append(front, s[Len(s)])

\* ", ".join(names)
RECURSIVE Join(_)
Join(names) ==
    IF names = <<>> THEN <<>>
    ELSE IF Len(names) = 1 THEN names[1]
    ELSE Join(SubSeq(names, 1, Len(names) - 1)) \o <<",", " ">> \o names[Len(names)]

(* C20: the listing printed by the all_keys cell holds every distinct key  *)
(* of the rows exactly once, in the order of first occurrence, separated   *)
(* by ", " -- also a key whose name is a substring of a key seen earlier.  *)
C20_ListingHasEveryKey ==
    pc = "keys_done" => printed = Join(Dedup(KeysUpTo(Len(results))))

====
